---- MODULE Spec2Model ----
(***************************************************************************)
(* A model of src/python/vrptw_solver.py: one solve request of the         *)
(* capacitated vehicle routing problem with time windows.                  *)
(*                                                                         *)
(* The request is drawn in Init.  create_data_model fills the defaults,    *)
(* solve_vrptw builds the routing model (index manager, transit callbacks, *)
(* capacity and time dimensions, cumul ranges), asks the routing library   *)
(* for an assignment and walks it into the response.                       *)
(*                                                                         *)
(* The routing library is modelled by its contract: SolveWithParameters    *)
(* returns nothing, or an assignment that visits every node once and       *)
(* satisfies both dimensions.  Which assignment, and which cumul values    *)
(* within the ranges, is a nondeterministic choice.                        *)
(*                                                                         *)
(* Python lists are sequences; At(list, i) is list[i] with i from 0.       *)
(***************************************************************************)
EXTENDS Integers, Sequences, FiniteSets

VARIABLES pc, input, data, cumul_range, sol, v, routes,
          total_distance, total_time, total_load, response

vars == <<pc, input, data, cumul_range, sol, v, routes,
          total_distance, total_time, total_load, response>>

(* ------------------------------ bounds --------------------------------- *)

\* Largest number of locations (depot included) of a request.
MaxN == 3

\* Largest number of vehicles of a request.
MaxVehicles == 2

(* ----------------------------- constants ------------------------------- *)

SERVICE_TIME_SECONDS == 600

SlackMaxDoubled == 60 * 60

SLACK_MAX_SECONDS == 1800

MAX_TIME_SECONDS == 86400

DEFAULT_CAPACITY == 1000

DEFAULT_DEMAND == 1

(* ------------------------------ helpers -------------------------------- *)

At(list, i) == list[i + 1]

Max(a, b) == IF a >= b THEN a ELSE b

Min(a, b) == IF a <= b THEN a ELSE b

RECURSIVE SumSeq(_)
SumSeq(s) == IF s = <<>> THEN 0 ELSE Head(s) + SumSeq(Tail(s))

Repeat(x, n) == [i \in 1..n |-> x]

(* --------------------------- request inputs ---------------------------- *)

\* distance_matrix of a request with n locations: zero diagonal, asymmetric,
\* and a round trip costs more in one direction than in the other.
DistanceMatrixOf(n) ==
    [i \in 1..n |-> [j \in 1..n |->
        IF i = j THEN 0 ELSE 10 * i + j + (IF i < j THEN 5 ELSE 0)]]

\* time_matrix of a request with n locations, of the same kind.
TimeMatrixOf(n) ==
    [i \in 1..n |-> [j \in 1..n |->
        IF i = j THEN 0 ELSE 100 * i + 10 * j + (IF i < j THEN 50 ELSE 0)]]

Wide == <<0, 90000>>

Narrow == <<1200, 4000>>

Late == <<85000, 90000>>

\* time_windows: all wide, all late, or one location narrow among wide ones.
WindowChoices(n) ==
    {Repeat(Wide, n), Repeat(Late, n)}
        \cup {[i \in 1..n |-> IF i - 1 = z THEN Narrow ELSE Wide] : z \in 0..(n - 1)}

\* demands: omitted, one entry too many, or 2 everywhere but 0 at one location.
DemandChoices(n) ==
    {<<"omitted", <<>> >>, <<"given", Repeat(1, n + 1)>>}
        \cup {<<"given", [i \in 1..n |-> IF i - 1 = z THEN 0 ELSE 2]>> : z \in 0..(n - 1)}

\* vehicle_capacities: omitted, rising (2, 4, ..) or falling (4, 2, 2, ..).
CapacityChoices(k) ==
    {<<"omitted", <<>> >>,
     <<"given", [i \in 1..k |-> 2 * i]>>,
     <<"given", [i \in 1..k |-> IF i = 1 THEN 4 ELSE 2]>>}

MkInput(n, k, d, dem, cap, tw) ==
    [distance_matrix    |-> DistanceMatrixOf(n),
     time_matrix        |-> TimeMatrixOf(n),
     time_windows       |-> tw,
     num_vehicles       |-> k,
     depot              |-> d,
     keys               |-> (IF dem[1] = "given" THEN {"demands"} ELSE {})
                               \cup (IF cap[1] = "given" THEN {"vehicle_capacities"} ELSE {}),
     vehicle_capacities |-> cap[2],
     demands            |-> dem[2]]

InputsOf(n, k) ==
    {MkInput(n, k, t[1], t[2], t[3], t[4]) :
        t \in (0..(n - 1)) \X DemandChoices(n) \X CapacityChoices(k) \X WindowChoices(n)}

Inputs == UNION {InputsOf(t[1], t[2]) : t \in (1..MaxN) \X (1..MaxVehicles)}

(* -------------------------- create_data_model -------------------------- *)

DataModel(input_data) ==
    [distance_matrix    |-> input_data.distance_matrix,
     time_matrix        |-> input_data.time_matrix,
     time_windows       |-> input_data.time_windows,
     num_vehicles       |-> input_data.num_vehicles,
     depot              |-> input_data.depot,
     vehicle_capacities |-> IF "vehicle_capacities" \in input_data.keys
                            THEN input_data.vehicle_capacities
                            ELSE Repeat(DEFAULT_CAPACITY, input_data.num_vehicles),
     demands            |-> IF "demands" \in input_data.keys
                            THEN input_data.demands
                            ELSE Repeat(DEFAULT_DEMAND, Len(input_data.distance_matrix))]

NoData == [created |-> FALSE]

NoSolution == [found |-> FALSE]

NoResponse == [pending |-> TRUE]

Init ==
    /\ pc = "start"
    /\ input \in Inputs
    /\ data = NoData
    /\ cumul_range = <<>>
    /\ sol = NoSolution
    /\ v = 0
    /\ routes = <<>>
    /\ total_distance = 0
    /\ total_time = 0
    /\ total_load = 0
    /\ response = NoResponse

CreateDataModel ==
    /\ pc = "start"
    /\ data' = DataModel(input)
    /\ pc' = "model"
    /\ UNCHANGED <<input, cumul_range, sol, v, routes,
                   total_distance, total_time, total_load, response>>

(* ---------------------- RoutingIndexManager ------------------------- *)

NumNodes == Len(data.distance_matrix)

NumVehicles == data.num_vehicles

Vehicles == 0..(NumVehicles - 1)

\* Indices that have a successor: one per node, one more per extra vehicle start.
ManagerSize == NumNodes + NumVehicles - 1

Indices == 0..(ManagerSize + NumVehicles - 1)

NonEndIndices == 0..(ManagerSize - 1)

\* Every node keeps its own number as index; the depot's index is the start
\* of vehicle 0, the other starts and all ends are further aliases of the depot.
IndexToNode(index) == IF index < NumNodes THEN index ELSE data.depot

NodeToIndex(node) == node

Start(vehicle_id) == IF vehicle_id = 0 THEN data.depot ELSE NumNodes + vehicle_id - 1

End(vehicle_id) == ManagerSize + vehicle_id

IsEnd(index) == index >= ManagerSize

Customers == {n \in 0..(NumNodes - 1) : n # data.depot}

(* --------------------------- transit callbacks ------------------------- *)

distance_callback(from_idx, to_idx) ==
    LET f == IndexToNode(from_idx)
        t == IndexToNode(to_idx)
    IN  At(At(data.distance_matrix, f), t)

time_callback(from_idx, to_idx) ==
    LET f == IndexToNode(from_idx)
        t == IndexToNode(to_idx)
        travel_time == At(At(data.time_matrix, f), t)
    IN  IF t # 0 THEN travel_time + SERVICE_TIME_SECONDS ELSE travel_time

demand_callback(from_idx) ==
    LET from_node == IndexToNode(from_idx)
    IN  At(data.demands, from_node)

VehicleCapacityOfFirst(vehicle_id) == At(data.vehicle_capacities, 0)

\* The capacity handed to the capacity dimension for a vehicle.
VehicleCapacity(vehicle_id) == At(data.vehicle_capacities, vehicle_id)

(* ------------------------- time dimension ranges ----------------------- *)

\* CumulVar(index).SetRange(lo, hi): the range kept is the intersection.
SetRange(ranges, index, lo, hi) ==
    [ranges EXCEPT ![index] = <<Max(@[1], lo), Min(@[2], hi)>>]

\* AddDimension(time_cb_idx, SLACK_MAX_SECONDS, MAX_TIME_SECONDS, False, "Time")
InitialRanges == [index \in Indices |-> <<0, MAX_TIME_SECONDS>>]

\* for location_idx, time_window in enumerate(data["time_windows"])
RECURSIVE LocationRanges(_, _)
LocationRanges(ranges, location_idx) ==
    IF location_idx >= Len(data.time_windows) THEN ranges
    ELSE LET time_window == At(data.time_windows, location_idx)
         IN  LocationRanges(
                 SetRange(ranges, NodeToIndex(location_idx), time_window[1], time_window[2]),
                 location_idx + 1)

\* for vehicle_id in range(data["num_vehicles"]): the window of location 0
RECURSIVE VehicleRanges(_, _)
VehicleRanges(ranges, vehicle_id) ==
    IF vehicle_id >= NumVehicles THEN ranges
    ELSE LET w == At(data.time_windows, 0)
             atStart == SetRange(ranges, Start(vehicle_id), w[1], w[2])
         IN  VehicleRanges(SetRange(atStart, End(vehicle_id), w[1], w[2]), vehicle_id + 1)

BuildModel ==
    /\ pc = "model"
    /\ cumul_range' = VehicleRanges(LocationRanges(InitialRanges, 0), 0)
    /\ pc' = "built"
    /\ UNCHANGED <<input, data, sol, v, routes,
                   total_distance, total_time, total_load, response>>

(* --------------------------- the assignment ---------------------------- *)

\* Orders in which the non-depot nodes can be visited.
Orders ==
    {s \in [1..Cardinality(Customers) -> Customers] :
        \A i, j \in DOMAIN s : i # j => s[i] # s[j]}

\* The indices vehicle vid passes, from its start to its end.
PathOf(veh, ord, vid) ==
    <<Start(vid)>> \o SelectSeq(ord, LAMBDA n : veh[n] = vid) \o <<End(vid)>>

\* Capacity dimension: the cumul starts at zero and grows by the demand of the
\* index left, with no slack.
RECURSIVE CapacityCumul(_, _)
CapacityCumul(path, k) ==
    IF k = 1 THEN 0 ELSE CapacityCumul(path, k - 1) + demand_callback(path[k - 1])

CapacityDimensionLeftOut(path, vid) == TRUE

\* Every cumul of the capacity dimension lies in [0, capacity of the vehicle].
CapacityFeasible(path, vid) ==
    \A k \in 1..Len(path) :
        /\ 0 <= CapacityCumul(path, k)
        /\ CapacityCumul(path, k) <= VehicleCapacity(vid)

\* Time dimension: the cumul grows by the transit of the arc plus the slack
\* taken at the index left.
RECURSIVE TimeCumul(_, _, _, _)
TimeCumul(path, k, start, slack) ==
    IF k = 1 THEN start
    ELSE TimeCumul(path, k - 1, start, slack)
             + time_callback(path[k - 1], path[k]) + slack[path[k - 1]]

\* The cumul values of the search are sampled: a used vehicle leaves at the
\* earliest time of its start range or StartDelays later, and one index of the
\* assignment may take a slack out of SlackSamples.
StartDelays == {0, 600}

SlackSamples == {1800, 2700}

\* Slack of the time dimension: between 0 and the slack maximum.
SlackAllowed(w) == 0 <= w /\ w <= SLACK_MAX_SECONDS

\* An unused vehicle goes from its start to its end: the earliest start and
\* the least slack that fit the two ranges.
UnusedStart(vid) ==
    Max(cumul_range[Start(vid)][1],
        cumul_range[End(vid)][1] - time_callback(Start(vid), End(vid)) - SLACK_MAX_SECONDS)

UnusedSlack(vid) ==
    Max(0, cumul_range[End(vid)][1] - UnusedStart(vid) - time_callback(Start(vid), End(vid)))

\* The assignment of a search: successors, and the cumuls of both dimensions.
Assignment(paths, delay, waitAt, w) ==
    LET unused == {vid \in Vehicles : Len(paths[vid]) <= 2}
        slack  == [i \in Indices |->
                      IF i = waitAt THEN w
                      ELSE IF \E vid \in unused : i = Start(vid)
                           THEN UnusedSlack(CHOOSE vid \in unused : i = Start(vid))
                           ELSE 0]
        start  == [vid \in Vehicles |->
                      IF vid \in unused THEN UnusedStart(vid)
                      ELSE cumul_range[Start(vid)][1] + delay]
        place  == [i \in Indices |->
                      CHOOSE t \in UNION {{<<vid, k>> : k \in 1..Len(paths[vid])} : vid \in Vehicles} :
                          paths[t[1]][t[2]] = i]
    IN  [found |-> TRUE,
         next  |-> [i \in NonEndIndices |-> paths[place[i][1]][place[i][2] + 1]],
         slack |-> slack,
         load  |-> [i \in Indices |-> CapacityCumul(paths[place[i][1]], place[i][2])],
         time  |-> [i \in Indices |->
                       TimeCumul(paths[place[i][1]], place[i][2], start[place[i][1]], slack)]]

\* Every cumul of the time dimension lies in its range, every slack in [0, max].
TimeFeasible(a) ==
    /\ \A i \in Indices : cumul_range[i][1] <= a.time[i] /\ a.time[i] <= cumul_range[i][2]
    /\ \A i \in Indices : SlackAllowed(a.slack[i])

\* routing.SolveWithParameters(search_params) found an assignment.
SolveFound ==
    /\ pc = "built"
    /\ \E veh \in [Customers -> Vehicles], ord \in Orders :
          LET paths == [vid \in Vehicles |-> PathOf(veh, ord, vid)]
              froms == UNION {{paths[x][k] : k \in 1..(Len(paths[x]) - 1)} :
                                 x \in {y \in Vehicles : Len(paths[y]) > 2}}
          IN  \* each set of routes is drawn once: ord lists them vehicle by vehicle
              /\ \A i, j \in DOMAIN ord : i < j => veh[ord[i]] <= veh[ord[j]]
              /\ \A vid \in Vehicles : CapacityFeasible(paths[vid], vid)
              /\ \E delay \in StartDelays,
                    wait \in {<<-1, 0>>} \cup (froms \X SlackSamples) :
                    /\ SlackAllowed(wait[2])
                    /\ LET a == Assignment(paths, delay, wait[1], wait[2])
                       IN  /\ TimeFeasible(a)
                           /\ sol' = a
    /\ pc' = "extract"
    /\ UNCHANGED <<input, data, cumul_range, v, routes,
                   total_distance, total_time, total_load, response>>

\* The search is incomplete and time-limited: it may always end without an
\* assignment, and does when none exists.
SolveFailed ==
    /\ pc = "built"
    /\ response' = [error |-> "No feasible solution found."]
    /\ pc' = "done"
    /\ UNCHANGED <<input, data, cumul_range, sol, v, routes,
                   total_distance, total_time, total_load>>

(* ------------------------------ extraction ----------------------------- *)

IsVehicleUsed(solution, vehicle_id) == solution.next[Start(vehicle_id)] # End(vehicle_id)

\* The indices from index to the end of its route, the end included.
RECURSIVE Walk(_)
Walk(index) == IF IsEnd(index) THEN <<index>> ELSE <<index>> \o Walk(sol.next[index])

RouteIncluded(route) == Len(route) > 2

RouteDistanceBackwards(route) ==
    SumSeq([i \in 1..(Len(route) - 1) |-> At(At(data.distance_matrix, route[i + 1]), route[i])])

RouteDistance(route) ==
    SumSeq([i \in 1..(Len(route) - 1) |-> At(At(data.distance_matrix, route[i]), route[i + 1])])

LoopDoneOneEarly(vehicle_id) == vehicle_id >= NumVehicles - 1

\* for v in range(data["num_vehicles"]) has run out.
LoopDone(vehicle_id) == vehicle_id >= NumVehicles

SkipUnusedVehicle ==
    /\ pc = "extract"
    /\ ~LoopDone(v)
    /\ ~IsVehicleUsed(sol, v)
    /\ v' = v + 1
    /\ UNCHANGED <<pc, input, data, cumul_range, sol, routes,
                   total_distance, total_time, total_load, response>>

ExtractVehicle ==
    /\ pc = "extract"
    /\ ~LoopDone(v)
    /\ IsVehicleUsed(sol, v)
    /\ LET walk           == Walk(Start(v))
           route          == [k \in 1..Len(walk) |-> IndexToNode(walk[k])]
           loads          == [k \in 1..Len(walk) |-> sol.load[walk[k]]]
           arrival_times  == [k \in 1..Len(walk) |-> sol.time[walk[k]]]
           route_distance == RouteDistance(route)
           route_time     == sol.time[End(v)] - sol.time[Start(v)]
           route_load     == loads[Len(loads)]
       IN  IF RouteIncluded(route)
           THEN /\ routes' = Append(routes,
                                [vehicle_id    |-> v,
                                 route         |-> route,
                                 loads         |-> loads,
                                 arrival_times |-> arrival_times,
                                 distance      |-> route_distance,
                                 time          |-> route_time,
                                 load          |-> route_load,
                                 capacity      |-> At(data.vehicle_capacities, v)])
                /\ total_distance' = total_distance + route_distance
                /\ total_time' = total_time + route_time
                /\ total_load' = total_load + route_load
           ELSE UNCHANGED <<routes, total_distance, total_time, total_load>>
    /\ v' = v + 1
    /\ UNCHANGED <<pc, input, data, cumul_range, sol, response>>

SuccessAlways(rs, td, tt, tl) ==
    [routes            |-> rs,
     total_distance    |-> td,
     total_time        |-> tt,
     total_load        |-> tl,
     num_vehicles_used |-> Len(rs)]

\* The value solve_vrptw returns once every vehicle has been looked at.
Result(rs, td, tt, tl) ==
    IF rs = <<>>
    THEN [error |-> "No routes found after solving"]
    ELSE [routes            |-> rs,
          total_distance    |-> td,
          total_time        |-> tt,
          total_load        |-> tl,
          num_vehicles_used |-> Len(rs)]

Return ==
    /\ pc = "extract"
    /\ LoopDone(v)
    /\ response' = Result(routes, total_distance, total_time, total_load)
    /\ pc' = "done"
    /\ UNCHANGED <<input, data, cumul_range, sol, v, routes,
                   total_distance, total_time, total_load>>

Next ==
    \/ CreateDataModel
    \/ BuildModel
    \/ SolveFound
    \/ SolveFailed
    \/ SkipUnusedVehicle
    \/ ExtractVehicle
    \/ Return

Spec == Init /\ [][Next]_vars

(* ------------------------------- claims -------------------------------- *)

\* The solve has returned a response with a 'routes' field.
Succeeded == pc = "done" /\ "routes" \in DOMAIN response

RouteIds == 1..Len(response.routes)

\* C1: in every success response each non-depot node appears in exactly one
\* route's node sequence, exactly once.
C1_EveryNodeOnce ==
    Succeeded =>
        \A n \in Customers :
            Cardinality({t \in UNION {{<<r, k>> : k \in 1..Len(response.routes[r].route)} :
                                         r \in RouteIds} :
                            response.routes[t[1]].route[t[2]] = n}) = 1

\* C1 witness: a success response with two routes.
C1_Witness ==
    /\ Succeeded
    /\ Len(response.routes) = 2
    /\ \A r \in RouteIds : Len(response.routes[r].route) = 3

\* C2: in every route of a success response the loads never decrease along
\* the route, and no load (the final one included) exceeds the capacity of
\* the vehicle that owns the route.
C2_LoadsGrowWithinCapacity ==
    Succeeded =>
        \A r \in RouteIds :
            LET rt  == response.routes[r]
                cap == At(data.vehicle_capacities, rt.vehicle_id)
            IN  /\ \A k \in 1..(Len(rt.loads) - 1) : rt.loads[k] <= rt.loads[k + 1]
                /\ \A k \in 1..Len(rt.loads) : rt.loads[k] <= cap
                /\ rt.load <= cap

\* C2 witness: the second vehicle's route fills its capacity of 2, less than
\* the first vehicle's.
C2_Witness ==
    /\ Succeeded
    /\ \E r \in RouteIds :
          LET rt == response.routes[r]
          IN  /\ rt.vehicle_id = 1
              /\ At(data.vehicle_capacities, 0) = 4
              /\ rt.load = 2
              /\ At(data.vehicle_capacities, 1) = 2
              /\ \E k \in 1..(Len(rt.loads) - 1) : rt.loads[k] < rt.loads[k + 1]

\* C3: in every route of a success response each arrival time lies within the
\* time window of the node visited, the depot's occurrences at both ends
\* included, whichever location is the depot.
C3_ArrivalsWithinWindows ==
    Succeeded =>
        \A r \in RouteIds :
            LET rt == response.routes[r]
            IN  \A k \in 1..Len(rt.route) :
                    /\ At(data.time_windows, rt.route[k])[1] <= rt.arrival_times[k]
                    /\ rt.arrival_times[k] <= At(data.time_windows, rt.route[k])[2]

\* The response the claim C4 expects of a depot-only request.
IsEmptySuccess(resp) ==
    /\ "routes" \in DOMAIN resp
    /\ resp.routes = <<>>
    /\ resp.total_distance = 0
    /\ resp.total_time = 0
    /\ resp.num_vehicles_used = 0

\* C4 as stated: a request with only the depot, for which the search found
\* an assignment, yields the success response with no routes and zero totals.
C4_DepotOnlyIsEmptySuccess ==
    (pc = "done" /\ NumNodes = 1 /\ sol.found) => IsEmptySuccess(response)

\* C4 as amended: a request with only the depot never yields a success
\* response; when the search found an assignment the response is the error
\* "No routes found after solving", otherwise "No feasible solution found.".
C4_DepotOnlyIsNoRoutesError ==
    (pc = "done" /\ NumNodes = 1) =>
        response = IF sol.found
                   THEN [error |-> "No routes found after solving"]
                   ELSE [error |-> "No feasible solution found."]

\* C4 witness: two vehicles, only the depot, an assignment found.
C4_Witness ==
    /\ pc = "done"
    /\ NumNodes = 1
    /\ NumVehicles = 2
    /\ sol.found
    /\ response = [error |-> "No routes found after solving"]

\* C5: the depot and the vehicles' start and end visits add no demand: the
\* load at the first stop after the depot is 0 and the final load of a route
\* is the sum of the demands of its non-depot nodes.
C5_DepotAddsNoDemand ==
    Succeeded =>
        \A r \in RouteIds :
            LET rt == response.routes[r]
            IN  /\ rt.loads[2] = 0
                /\ rt.load = SumSeq([k \in 1..(Len(rt.route) - 2) |->
                                        At(data.demands, rt.route[k + 1])])

\* The shape checks the specification asks of a problem.
ValidProblem(d) ==
    LET n == Len(d.distance_matrix)
    IN  /\ \A i \in 1..n : Len(d.distance_matrix[i]) = n
        /\ Len(d.time_matrix) = n
        /\ \A i \in 1..Len(d.time_matrix) : Len(d.time_matrix[i]) = n
        /\ Len(d.demands) = n
        /\ Len(d.time_windows) = n
        /\ d.depot \in 0..(n - 1)
        /\ \A i \in 1..Len(d.vehicle_capacities) : d.vehicle_capacities[i] >= 0

\* C6: no malformed problem reaches the construction of the routing model or
\* the search; it ends with an InvalidProblemError instead.
C6_ValidatedBeforeConstruction ==
    /\ pc \in {"built", "extract"} => ValidProblem(data)
    /\ pc = "done" => (ValidProblem(data) \/ response = [error |-> "InvalidProblemError"])

\* The demands of the locations and the capacities of the fleet.
TotalDemand == SumSeq(SubSeq(data.demands, 1, NumNodes))

TotalCapacity == SumSeq(data.vehicle_capacities)

\* C7: when the demands sum to more than the capacity of the whole fleet the
\* response is the error "No feasible solution found." and never holds routes.
C7_OverCapacityIsInfeasible ==
    (pc \in {"extract", "done"} /\ TotalDemand > TotalCapacity) =>
        /\ ~sol.found
        /\ response = [error |-> "No feasible solution found."]

\* C7 witness: two locations of demand 2 beside a depot of demand 0, one
\* vehicle of capacity 2, and the solve has returned.
C7_Witness ==
    /\ pc = "done"
    /\ NumNodes = 3
    /\ At(data.demands, data.depot) = 0
    /\ TotalDemand = 4
    /\ TotalCapacity = 2
    /\ response = [error |-> "No feasible solution found."]

\* C8: each route's distance is the sum of the distance matrix over the
\* consecutive nodes of its sequence, and total_distance is the sum of the
\* distances of the routes listed.
C8_DistancesAddUp ==
    Succeeded =>
        /\ \A r \in RouteIds :
              LET rt == response.routes[r]
              IN  rt.distance =
                      SumSeq([i \in 1..(Len(rt.route) - 1) |->
                                 data.distance_matrix[rt.route[i] + 1][rt.route[i + 1] + 1]])
        /\ response.total_distance = SumSeq([r \in RouteIds |-> response.routes[r].distance])
        /\ response.num_vehicles_used = Len(response.routes)

\* C8 witness: two routes, one of them through two non-depot nodes, while a
\* vehicle stays unused.
C8_Witness ==
    /\ Succeeded
    /\ \E r \in RouteIds : Len(response.routes[r].route) = 4
    /\ response.total_distance > 0
    /\ Len(response.routes) < NumVehicles

\* C9: whichever location is the depot, the time transit of an arc is the
\* travel time plus the service time exactly when the destination is not the
\* depot, and the arc cost is the distance alone.
C9_ServiceTimeExceptAtDepot ==
    pc = "built" =>
        \A from_idx, to_idx \in Indices :
            LET f == IndexToNode(from_idx)
                t == IndexToNode(to_idx)
            IN  /\ time_callback(from_idx, to_idx) =
                       data.time_matrix[f + 1][t + 1] + (IF t # data.depot THEN 600 ELSE 0)
                /\ distance_callback(from_idx, to_idx) = data.distance_matrix[f + 1][t + 1]

====
